---- MODULE Spec2Model ----
(***************************************************************************)
(* Model of zenodo_uploader.py: one run of the script.  The script looks   *)
(* for an existing deposition, creates a deposition or a new version,      *)
(* uploads the files, attaches metadata and optionally publishes.          *)
(*                                                                         *)
(* Text is a sequence of one-character strings, a file name a sequence of  *)
(* name parts (<<"env", ".tar", ".gz">>), a publication date a number, a   *)
(* bucket URL the id of the deposition it belongs to.                      *)
(***************************************************************************)
EXTENDS Integers, Sequences, FiniteSets, TLC

(* ---- bounds ---- *)
MaxHits == 2
MaxFiles == 2
MaxStored == 1

(* ---- values ---- *)
\* Python's None for deposition_id / bucket_url / file_url (falsy, as in
\* `if not deposition_id`).
None == 0

\* the title of the config's metadata and ZENODO_OWNER_ID of this run
title == "T"
owner == "O"

Titles == {"T", "U"}
Owners == {"O", "P"}
Dates == {1, 2, 3}

\* final status codes the service may answer with
Statuses == {200, 304, 404}

\* outcome of the transport and of response.json()
Transports == {"ok", "ConnectionError", "JSONDecodeError"}

FileNames == {<<"env", ".tar", ".gz">>, <<"report", ".txt">>}

\* stored checksums of the files of a deposition
Checksums == {<<"a">>, <<"b">>}

\* contents of <env_name>-md5sum.txt
SidecarContents ==
    { <<"l", "=", "a", "\n">>,
      <<"l", "=", "b">>,
      <<"a", "=", "l", "=", "b", "\n">>,
      <<"b", "=", "c">>,
      <<"a">>,
      <<"=", " ", "a", " ", "\n">>,
      <<"a", "=">>,
      <<>> }

Whitespace == {" ", "\n"}

VARIABLES
    files_to_upload,  \* args.files_to_upload
    publish,          \* args.publish
    pc,               \* position of the script
    idx,              \* index of the current file of the for loop
    deposition_id,    \* the script's deposition_id
    bucket_url,       \* the script's bucket_url
    file_url,         \* the script's file_url
    error,            \* the exception that ended the run, "" if none
    frame,            \* locals of the call that has just returned
    calls,            \* the requests sent to the service, in order
    invoked,          \* the functions the script has called, in order
    found,            \* the id search_for_deposition returned
    next_id           \* the service's next fresh deposition id

vars == <<files_to_upload, publish, pc, idx, deposition_id, bucket_url,
          file_url, error, frame, calls, invoked, found, next_id>>

(* ---- helpers ---- *)
SeqsUpTo(S, n) == UNION {[1..k -> S] : k \in 0..n}

Last(s) == s[Len(s)]

\* response.raise_for_status(): HTTPError for a 4xx or 5xx status
RaisesForStatus(status) == status >= 400 /\ status < 600

\* str.endswith on a name made of parts
EndsWith(s, suffix) ==
    /\ Len(s) >= Len(suffix)
    /\ SubSeq(s, Len(s) - Len(suffix) + 1, Len(s)) = suffix

IsArchive(filename) == EndsWith(filename, <<".tar", ".gz">>)

\* content.split("=")[-1]: scan from the right up to the first "="
RECURSIVE SplitLast(_)
SplitLast(s) ==
    IF s = <<>> THEN <<>>
    ELSE IF Last(s) = "=" THEN <<>>
    ELSE Append(SplitLast(SubSeq(s, 1, Len(s) - 1)), Last(s))

RECURSIVE LStrip(_)
LStrip(s) ==
    IF s # <<>> /\ Head(s) \in Whitespace THEN LStrip(Tail(s)) ELSE s

RECURSIVE RStrip(_)
RStrip(s) ==
    IF s # <<>> /\ Last(s) \in Whitespace
    THEN RStrip(SubSeq(s, 1, Len(s) - 1))
    ELSE s

\* str.strip()
Strip(s) == LStrip(RStrip(s))

\* a version without .strip()
ChecksumUnstripped(content) == SplitLast(content)

\* current_file_checksum = content.split("=")[-1].strip()
ChecksumOf(content) == Strip(SplitLast(content))

\* x in list
InList(x, list) == \E k \in 1..Len(list) : list[k] = x

(* ---- search_for_deposition ---- *)
\* the hit lists the service may return: the hit at position k has id k
HitLists ==
    UNION { {[k \in 1..n |-> [id |-> k, title |-> t[k], owner |-> o[k],
                             publication_date |-> d[k]]] :
                t \in [1..n -> Titles], o \in [1..n -> Owners],
                d \in [1..n -> Dates]} : n \in 0..MaxHits }

\* a version of the filter that asks for both
MatchesBoth(deposition) == deposition.title = title /\ deposition.owner = owner

\* the condition of the client-side filter
Matches(deposition) == deposition.title = title \/ deposition.owner = owner

\* depositions = [d for d in records if <filter>]
RECURSIVE Filter(_)
Filter(records) ==
    IF records = <<>> THEN <<>>
    ELSE IF Matches(Head(records))
         THEN <<Head(records)>> \o Filter(Tail(records))
         ELSE Filter(Tail(records))

\* a version that puts d before the elements of equal date
RECURSIVE InsertDescUnstable(_, _)
InsertDescUnstable(d, sorted) ==
    IF sorted = <<>> THEN <<d>>
    ELSE IF Head(sorted).publication_date > d.publication_date
         THEN <<Head(sorted)>> \o InsertDescUnstable(d, Tail(sorted))
         ELSE <<d>> \o sorted

\* insert d into a list sorted by descending date, after the elements whose
\* date is greater or equal (a stable sort keeps equal keys in input order)
RECURSIVE InsertDesc(_, _)
InsertDesc(d, sorted) ==
    IF sorted = <<>> THEN <<d>>
    ELSE IF Head(sorted).publication_date >= d.publication_date
         THEN <<Head(sorted)>> \o InsertDesc(d, Tail(sorted))
         ELSE <<d>> \o sorted

\* sorted(depositions, key=publication_date, reverse=True)
RECURSIVE SortedDesc(_)
SortedDesc(depositions) ==
    IF depositions = <<>> THEN <<>>
    ELSE InsertDesc(Last(depositions),
                    SortedDesc(SubSeq(depositions, 1, Len(depositions) - 1)))

\* the deposition search_for_deposition returns for a non-empty candidate list
BestMatch(depositions) == SortedDesc(depositions)[1]

\* a version without the check `if not depositions`
SearchResultFirstHit(transport, status, records) ==
    IF transport # "ok" \/ status # 200 THEN None
    ELSE IF records = <<>> THEN None
    ELSE IF Filter(records) = <<>> THEN records[1].id
    ELSE BestMatch(Filter(records)).id

\* the value search_for_deposition returns for a response: None when the
\* request or response.json() raised, the status is not 200, there is no
\* hit, or no hit passes the filter
SearchResult(transport, status, records) ==
    IF transport # "ok" \/ status # 200 THEN None
    ELSE IF records = <<>> THEN None
    ELSE IF Filter(records) = <<>> THEN None
    ELSE BestMatch(Filter(records)).id

\* a request as the service sees it
Request(req, id, name, status) ==
    [req |-> req, id |-> id, name |-> name, status |-> status]

\* r.json() gives a deposition only for a response with a JSON body; the
\* modelled service sends one with status 200 only
HasJson(status) == status = 200

\* the exception a call raises on a response it reads with r.json() after
\* r.raise_for_status(), "" if none
ReadError(status) ==
    IF RaisesForStatus(status) THEN "HTTPError"
    ELSE IF ~HasJson(status) THEN "JSONDecodeError"
    ELSE ""

\* the exception a call raises on a response it only checks with
\* r.raise_for_status(), "" if none
CheckError(status) == IF RaisesForStatus(status) THEN "HTTPError" ELSE ""

\* main: `if not deposition_id:` ... `else:`
BranchAfterSearch(id) == IF id = None THEN "create" ELSE "ver_check"

\* a version that publishes inside the loop
AfterFilePublishEach(k, files, pub, again) ==
    IF pub THEN "publish"
    ELSE IF k < Len(files) THEN again ELSE "done"

\* a version that publishes whatever args.publish is
AfterFilePublishAlways(k, files, pub, again) ==
    IF k < Len(files) THEN again ELSE "publish"

\* main: the end of a for loop over args.files_to_upload, then `if args.publish`
AfterFile(k, files, pub, again) ==
    IF k < Len(files) THEN again
    ELSE IF pub THEN "publish" ELSE "done"

(* ---- create_new_deposition ---- *)
\* what create_new_deposition does on the response to its POST
NewDeposition(status, fresh) ==
    [requests |-> <<Request("POST deposition", None, <<>>, status)>>,
     raised |-> ReadError(status),
     id |-> IF ReadError(status) = "" THEN fresh ELSE None]

(* ---- create_new_version ---- *)
\* the "latest_draft" link of the answer to the new-version action
LatestDraft(id) == <<"api", "deposit", "depositions", id>>

\* new_deposition_url.split("/")[-1]
DraftIdOf(url) == Last(url)

\* what create_new_version(deposition_id) does on the responses to its POST
\* and to its GET; fresh is the id the service gives the new draft
NewVersion(of_id, post_status, get_status, fresh) ==
    LET post == Request("POST newversion", of_id, <<>>, post_status)
        new_deposition_id == DraftIdOf(LatestDraft(fresh))
        get == Request("GET deposition", new_deposition_id, <<>>, get_status)
    IN  IF ReadError(post_status) # ""
        THEN [requests |-> <<post>>, raised |-> ReadError(post_status),
              id |-> None]
        ELSE IF ReadError(get_status) # ""
        THEN [requests |-> <<post, get>>, raised |-> ReadError(get_status),
              id |-> None]
        ELSE [requests |-> <<post, get>>, raised |-> "",
              id |-> new_deposition_id]

(* ---- upload_to_zenodo ---- *)
\* the PUT of the file and what follows it
PutFile(frm, bucket, filebase, put_status) ==
    [frm EXCEPT !.requests = Append(@, Request("PUT file", bucket, filebase,
                                                put_status)),
                !.put = TRUE,
                !.raised = CheckError(put_status)]

\* the locals of upload_to_zenodo on entry
UploadStart(filename) ==
    [fn |-> "upload_to_zenodo", filename |-> filename,
     requests |-> <<>>, listed |-> FALSE, files_checksums |-> <<>>,
     read |-> FALSE, content |-> <<>>, current_file_checksum |-> <<>>,
     skipped |-> FALSE, put |-> FALSE, raised |-> ""]

\* the body of `if filename.endswith(".tar.gz"):` and the upload after it.
\* The GET is the one of create_new_version, GET deposit/depositions/{id},
\* named for what is read from it
CheckedUpload(id, filename, bucket, filebase, get_status, stored, sidecar_exists, sidecar, put_status) ==
    LET start == UploadStart(filename)
        get == Request("GET files", id, <<>>, get_status)
    IN  IF ReadError(get_status) # ""
        THEN [start EXCEPT !.requests = <<get>>,
                           !.raised = ReadError(get_status)]
        ELSE IF ~sidecar_exists
        THEN [start EXCEPT !.requests = <<get>>, !.listed = TRUE,
                           !.files_checksums = stored,
                           !.raised = "FileNotFoundError"]
        ELSE LET compared ==
                     [start EXCEPT !.requests = <<get>>, !.listed = TRUE,
                                   !.files_checksums = stored,
                                   !.read = TRUE, !.content = sidecar,
                                   !.current_file_checksum =
                                       ChecksumOf(sidecar)]
             IN  IF InList(ChecksumOf(sidecar), stored)
                 THEN [compared EXCEPT !.skipped = TRUE]
                 ELSE PutFile(compared, bucket, filebase, put_status)

\* a version of upload_to_zenodo that compares checksums for every file
UploadAlwaysChecked(id, filename, bucket, filebase, get_status, stored, sidecar_exists, sidecar, put_status) ==
    CheckedUpload(id, filename, bucket, filebase, get_status, stored,
                  sidecar_exists, sidecar, put_status)

\* what upload_to_zenodo does: the requests it sends, whether it read the
\* sidecar file, whether it skipped the upload, the exception it raised
Upload(id, filename, bucket, filebase, get_status, stored, sidecar_exists, sidecar, put_status) ==
    IF IsArchive(filename)
    THEN CheckedUpload(id, filename, bucket, filebase, get_status, stored,
                       sidecar_exists, sidecar, put_status)
    ELSE PutFile(UploadStart(filename), bucket, filebase, put_status)

(* ---- add_meta_data, publish_file ---- *)
AddMeta(id, status) ==
    [fn |-> "add_meta_data",
     requests |-> <<Request("PUT metadata", id, <<>>, status)>>,
     raised |-> CheckError(status)]

Publish(id, status) ==
    [fn |-> "publish_file",
     requests |-> <<Request("POST publish", id, <<>>, status)>>,
     raised |-> CheckError(status)]

(* ---- the script ---- *)
\* os.path.basename(os.path.abspath(file)): a file is named without its
\* directory here
Basename(file) == file

Init ==
    /\ files_to_upload \in SeqsUpTo(FileNames, MaxFiles) \ {<<>>}
    /\ publish \in BOOLEAN
    /\ pc = "search"
    /\ idx = 1
    /\ deposition_id = None
    /\ bucket_url = None
    /\ file_url = None
    /\ error = ""
    /\ frame = [fn |-> "main"]
    /\ calls = <<>>
    /\ invoked = <<>>
    /\ found = None
    /\ next_id = MaxHits + 1

\* deposition_id, bucket_url, file_url = search_for_deposition(...)
SearchForDeposition ==
    /\ pc = "search"
    /\ \E transport \in Transports, status \in Statuses, records \in HitLists :
        /\ records # <<>> => (transport = "ok" /\ status = 200)
        /\ transport = "ConnectionError" => status = 200
        /\ LET result == SearchResult(transport, status, records) IN
            /\ deposition_id' = result
            /\ bucket_url' = result
            /\ file_url' = result
            /\ frame' = [fn |-> "search_for_deposition", transport |-> transport,
                         status |-> status, records |-> records,
                         depositions |-> IF transport = "ok" /\ status = 200
                                         THEN Filter(records) ELSE <<>>,
                         result |-> result]
            /\ calls' = Append(calls,
                               Request("GET search", None, <<>>,
                                       IF transport = "ok" THEN status ELSE None))
            /\ pc' = BranchAfterSearch(result)
            /\ found' = result
    /\ invoked' = Append(invoked, [fn |-> "search_for_deposition", id |-> None])
    /\ UNCHANGED <<files_to_upload, publish, idx, error, next_id>>

\* deposition_id, bucket_url, file_url = create_new_deposition(token=token)
CreateNewDeposition ==
    /\ pc = "create"
    /\ \E status \in Statuses :
        LET out == NewDeposition(status, next_id) IN
        /\ calls' = calls \o out.requests
        /\ frame' = [fn |-> "create_new_deposition", raised |-> out.raised]
        /\ error' = out.raised
        /\ IF out.raised = ""
           THEN /\ deposition_id' = out.id
                /\ bucket_url' = out.id
                /\ file_url' = out.id
                /\ next_id' = next_id + 1
                /\ pc' = "new_check"
           ELSE /\ pc' = "error"
                /\ UNCHANGED <<deposition_id, bucket_url, file_url, next_id>>
    /\ invoked' = Append(invoked, [fn |-> "create_new_deposition", id |-> None])
    /\ UNCHANGED <<files_to_upload, publish, idx, found>>

\* if not os.path.isfile(filename): raise FileNotFoundError(...)
CheckFile ==
    /\ pc \in {"new_check", "ver_check"}
    /\ \E isfile \in BOOLEAN :
        /\ frame' = [fn |-> "isfile", raised |->
                        IF isfile THEN "" ELSE "FileNotFoundError"]
        /\ error' = IF isfile THEN "" ELSE "FileNotFoundError"
        /\ pc' = IF ~isfile THEN "error"
                 ELSE IF pc = "new_check" THEN "new_upload" ELSE "ver_create"
    /\ UNCHANGED <<files_to_upload, publish, idx, deposition_id, bucket_url,
                   file_url, calls, invoked, found, next_id>>

\* deposition_id, bucket_url, file_url = create_new_version(deposition_id, ...)
CreateNewVersion ==
    /\ pc = "ver_create"
    /\ \E post_status \in Statuses, get_status \in Statuses :
        \* an input the call does not read has one value
        /\ ReadError(post_status) # "" => get_status = 200
        /\ LET out == NewVersion(deposition_id, post_status, get_status, next_id) IN
           /\ calls' = calls \o out.requests
           /\ frame' = [fn |-> "create_new_version", of_id |-> deposition_id,
                        raised |-> out.raised]
           /\ error' = out.raised
           /\ next_id' = IF ReadError(post_status) = "" THEN next_id + 1 ELSE next_id
           /\ IF out.raised = ""
              THEN /\ deposition_id' = out.id
                   /\ bucket_url' = out.id
                   /\ file_url' = out.id
                   /\ pc' = "ver_upload"
              ELSE /\ pc' = "error"
                   /\ UNCHANGED <<deposition_id, bucket_url, file_url>>
    /\ invoked' = Append(invoked, [fn |-> "create_new_version",
                                   id |-> deposition_id])
    /\ UNCHANGED <<files_to_upload, publish, idx, found>>

\* upload_to_zenodo(deposition_id, filename=file, bucket_url, ...), and in the
\* branch of a new deposition the loop goes on to add_meta_data
UploadToZenodo ==
    /\ pc \in {"new_upload", "ver_upload"}
    /\ \E get_status \in Statuses, stored \in SeqsUpTo(Checksums, MaxStored),
          sidecar_exists \in BOOLEAN, sidecar \in SidecarContents,
          put_status \in Statuses :
        \* an input the call does not read has one value
        /\ (~IsArchive(files_to_upload[idx]) \/ ReadError(get_status) # "")
               => (stored = <<>> /\ sidecar_exists)
        /\ (~IsArchive(files_to_upload[idx]) \/ ReadError(get_status) # ""
                \/ ~sidecar_exists) => sidecar = <<>>
        /\ ~IsArchive(files_to_upload[idx]) => get_status = 200
        /\ (IsArchive(files_to_upload[idx])
               /\ (ReadError(get_status) # "" \/ ~sidecar_exists
                     \/ InList(ChecksumOf(sidecar), stored)))
               => put_status = 200
        /\ LET file == files_to_upload[idx]
               out == Upload(deposition_id, file, bucket_url, Basename(file),
                             get_status, stored, sidecar_exists, sidecar,
                             put_status)
           IN
           /\ calls' = calls \o out.requests
           /\ frame' = out
           /\ error' = out.raised
           /\ IF out.raised # ""
              THEN pc' = "error" /\ idx' = idx
              ELSE IF pc = "new_upload"
              THEN pc' = "new_meta" /\ idx' = idx
              ELSE /\ pc' = AfterFile(idx, files_to_upload, publish, "ver_check")
                   /\ idx' = IF idx < Len(files_to_upload) THEN idx + 1 ELSE idx
    /\ invoked' = Append(invoked, [fn |-> "upload_to_zenodo",
                                   id |-> deposition_id])
    /\ UNCHANGED <<files_to_upload, publish, deposition_id, bucket_url,
                   file_url, found, next_id>>

\* add_meta_data(deposition_id, meta_data, token)
AddMetaData ==
    /\ pc = "new_meta"
    /\ \E status \in Statuses :
        LET out == AddMeta(deposition_id, status) IN
        /\ calls' = calls \o out.requests
        /\ frame' = out
        /\ error' = out.raised
        /\ IF out.raised # ""
           THEN pc' = "error" /\ idx' = idx
           ELSE /\ pc' = AfterFile(idx, files_to_upload, publish, "new_check")
                /\ idx' = IF idx < Len(files_to_upload) THEN idx + 1 ELSE idx
    /\ invoked' = Append(invoked, [fn |-> "add_meta_data", id |-> deposition_id])
    /\ UNCHANGED <<files_to_upload, publish, deposition_id, bucket_url,
                   file_url, found, next_id>>

\* if args.publish: publish_file(deposition_id=deposition_id, token=token)
PublishFile ==
    /\ pc = "publish"
    /\ \E status \in Statuses :
        LET out == Publish(deposition_id, status) IN
        /\ calls' = calls \o out.requests
        /\ frame' = out
        /\ error' = out.raised
        /\ pc' = IF out.raised # "" THEN "error" ELSE "done"
    /\ invoked' = Append(invoked, [fn |-> "publish_file", id |-> deposition_id])
    /\ UNCHANGED <<files_to_upload, publish, idx, deposition_id, bucket_url,
                   file_url, found, next_id>>

Next ==
    \/ SearchForDeposition
    \/ CreateNewDeposition
    \/ CheckFile
    \/ CreateNewVersion
    \/ UploadToZenodo
    \/ AddMetaData
    \/ PublishFile

Spec == Init /\ [][Next]_vars

(* ---- properties ---- *)

\* the requests of `calls` to which the service answered with `req`
CallsOf(req) == {k \in 1..Len(calls) : calls[k].req = req}

\* the positions of `invoked` at which fn was called
InvokedOf(fn) == {k \in 1..Len(invoked) : invoked[k].fn = fn}

Is2xx(status) == status >= 200 /\ status < 300

\* every request but the search was answered with a 2xx status
AllRemoteCallsSucceeded ==
    \A k \in 1..Len(calls) :
        calls[k].req # "GET search" => Is2xx(calls[k].status)

Call(fn, id) == [fn |-> fn, id |-> id]

\* the text after the last "=" of c (all of c when it has none)
AfterLastEq(c) ==
    CHOOSE t \in {SubSeq(c, k, Len(c)) : k \in 1..(Len(c) + 1)} :
        /\ \A j \in 1..Len(t) : t[j] # "="
        /\ Len(t) = Len(c) \/ c[Len(c) - Len(t)] = "="

\* t without the white space around it
Trimmed(t) ==
    CHOOSE u \in {SubSeq(t, a, b) : a \in 1..(Len(t) + 1), b \in 0..Len(t)} :
        /\ \E a \in 1..(Len(t) + 1), b \in 0..Len(t) :
              /\ u = SubSeq(t, a, b)
              /\ \A j \in 1..Len(t) : (j < a \/ j > b) => t[j] \in Whitespace
        /\ u # <<>> => (u[1] \notin Whitespace /\ u[Len(u)] \notin Whitespace)

\* C1: upload_to_zenodo on a file named *.tar.gz: when the checksum of the
\* sidecar file (the text after its last "=", without surrounding white
\* space) is among the checksums of the deposition's files, the call sends
\* nothing but the GET of the deposition's files, no PUT, and returns without
\* an exception.
C1_IdempotentUpload ==
    [][(/\ invoked' = Append(invoked, Call("upload_to_zenodo", deposition_id))
        /\ frame'.read
        /\ \E k \in 1..Len(frame'.files_checksums) :
               frame'.files_checksums[k] = Trimmed(AfterLastEq(frame'.content)))
       => /\ calls' = Append(calls, Request("GET files", deposition_id, <<>>, 200))
          /\ frame'.skipped
          /\ ~frame'.put
          /\ frame'.raised = ""
          /\ error' = ""
          /\ pc' # "error"]_vars

C1_Witness ==
    /\ frame.fn = "upload_to_zenodo"
    /\ frame.content = <<"a", "=", "l", "=", "b", "\n">>
    /\ frame.files_checksums = <<<<"b">>>>
    /\ frame.skipped
    /\ pc # "error"

\* C2: upload_to_zenodo on a file whose name does not end with .tar.gz sends
\* exactly one request, the PUT to bucket_url/filebase; it does not fetch the
\* deposition's files and does not read the sidecar file.
C2_NonArchiveAlwaysUploads ==
    [][(/\ invoked' = Append(invoked, Call("upload_to_zenodo", deposition_id))
        /\ ~(/\ Len(files_to_upload[idx]) >= 2
             /\ files_to_upload[idx][Len(files_to_upload[idx]) - 1] = ".tar"
             /\ files_to_upload[idx][Len(files_to_upload[idx])] = ".gz"))
       => /\ Len(calls') = Len(calls) + 1
          /\ Last(calls').req = "PUT file"
          /\ Last(calls').id = bucket_url
          /\ Last(calls').name = files_to_upload[idx]
          /\ frame'.put
          /\ ~frame'.listed
          /\ ~frame'.read
          /\ ~frame'.skipped]_vars

C2_Witness ==
    /\ frame.fn = "upload_to_zenodo"
    /\ frame.filename = <<"report", ".txt">>
    /\ frame.put
    /\ frame.raised = ""
    /\ Last(calls).req = "PUT file"
    /\ Last(calls).name = <<"report", ".txt">>

\* C3: when the search request fails, the status is not 200, there is no hit
\* or no hit passes the filter, search_for_deposition returns
\* (None, None, None) without raising; the run then calls
\* create_new_deposition and never create_new_version.
C3_NoMatchCreates ==
    /\ (/\ frame.fn = "search_for_deposition"
        /\ \/ frame.transport # "ok"
           \/ frame.status # 200
           \/ \A k \in 1..Len(frame.records) :
                 /\ frame.records[k].title # title
                 /\ frame.records[k].owner # owner)
       => /\ found = None
          /\ deposition_id = None /\ bucket_url = None /\ file_url = None
          /\ error = ""
          /\ pc = "create"
    /\ (pc # "search" /\ found = None)
       => /\ InvokedOf("create_new_version") = {}
          /\ CallsOf("POST newversion") = {}
          /\ pc # "create" => /\ Len(invoked) >= 2
                              /\ invoked[2].fn = "create_new_deposition"
                              /\ calls[2].req = "POST deposition"

C3_Witness ==
    /\ pc = "done"
    /\ found = None
    /\ calls[1].status = 200
    /\ InvokedOf("create_new_deposition") # {}

\* C4: the filter is an inclusive or: a hit is a candidate if and only if its
\* title is the title searched for or its owner the owner searched for, and
\* the deposition returned is one of the candidates.
C4_FilterInclusiveOr ==
    (/\ frame.fn = "search_for_deposition"
     /\ frame.transport = "ok"
     /\ frame.status = 200)
    => /\ \A k \in 1..Len(frame.records) :
             (\E j \in 1..Len(frame.depositions) :
                  frame.depositions[j] = frame.records[k])
             <=> (\/ frame.records[k].title = title
                  \/ frame.records[k].owner = owner)
       /\ frame.result # None
             => \E k \in 1..Len(frame.records) :
                    /\ frame.records[k].id = frame.result
                    /\ \/ frame.records[k].title = title
                       \/ frame.records[k].owner = owner

C4_Witness ==
    /\ frame.fn = "search_for_deposition"
    /\ Len(frame.records) = 2
    /\ frame.records[1].title # title /\ frame.records[1].owner # owner
    /\ frame.records[2].title = title /\ frame.records[2].owner # owner
    /\ frame.records[1].publication_date > frame.records[2].publication_date
    /\ frame.result = frame.records[2].id

\* the hits of list l in the order given by the permutation p
Permuted(l, p) == [k \in 1..Len(l) |-> l[p[k]]]

\* C5: search_for_deposition returns the candidate with the latest
\* publication date, the first in the service's order among those of that
\* date; when the candidates' dates are pairwise distinct, the hits in any
\* other order give the same id.
C5_SelectionDeterministic ==
    (frame.fn = "search_for_deposition" /\ frame.depositions # <<>>)
    => LET c == frame.depositions IN
       /\ \E k \in 1..Len(c) :
             /\ c[k].id = frame.result
             /\ \A j \in 1..Len(c) :
                   /\ c[j].publication_date <= c[k].publication_date
                   /\ j < k => c[j].publication_date < c[k].publication_date
       /\ (\A j, k \in 1..Len(c) :
               j # k => c[j].publication_date # c[k].publication_date)
          => \A p \in Permutations(1..Len(frame.records)) :
                 SearchResult("ok", 200, Permuted(frame.records, p))
                     = frame.result

C5_Witness ==
    /\ frame.fn = "search_for_deposition"
    /\ Len(frame.depositions) = 2
    /\ frame.depositions[1].publication_date
           < frame.depositions[2].publication_date
    /\ frame.result = frame.depositions[2].id

\* the names of the functions called, in order
Fns == [k \in 1..Len(invoked) |-> invoked[k].fn]

\* C6: a deposition was found, two files, --publish, every remote call
\* succeeds: the run calls create_new_version and then upload_to_zenodo for
\* each file, never create_new_deposition, and publish_file once, sending its
\* request last.
C6_ExistingTwoFilesPublish ==
    (/\ pc = "done"
     /\ found # None
     /\ Len(files_to_upload) = 2
     /\ publish
     /\ AllRemoteCallsSucceeded)
    => /\ Fns = <<"search_for_deposition",
                  "create_new_version", "upload_to_zenodo",
                  "create_new_version", "upload_to_zenodo",
                  "publish_file">>
       /\ Cardinality(CallsOf("POST newversion")) = 2
       /\ CallsOf("POST deposition") = {}
       /\ CallsOf("POST publish") = {Len(calls)}

C6_Witness ==
    /\ pc = "done"
    /\ found # None
    /\ Len(files_to_upload) = 2
    /\ publish
    /\ AllRemoteCallsSucceeded
    /\ Cardinality(CallsOf("PUT file")) = 2

\* C7: no deposition was found, one file, no --publish, every remote call
\* succeeds: the run calls create_new_deposition once, upload_to_zenodo once
\* and add_meta_data once, never create_new_version nor publish_file.
C7_NewOneFileNoPublish ==
    (/\ pc = "done"
     /\ found = None
     /\ Len(files_to_upload) = 1
     /\ ~publish
     /\ AllRemoteCallsSucceeded)
    => /\ invoked = <<Call("search_for_deposition", None),
                      Call("create_new_deposition", None),
                      Call("upload_to_zenodo", deposition_id),
                      Call("add_meta_data", deposition_id)>>
       /\ Cardinality(CallsOf("POST deposition")) = 1
       /\ Cardinality(CallsOf("PUT metadata")) = 1
       /\ CallsOf("POST newversion") = {}
       /\ CallsOf("POST publish") = {}

C7_Witness ==
    /\ pc = "done"
    /\ found = None
    /\ Len(files_to_upload) = 1
    /\ ~publish
    /\ AllRemoteCallsSucceeded
    /\ Cardinality(CallsOf("PUT file")) = 1

\* the requests C8 names
HardRequests ==
    {"POST deposition", "POST newversion", "GET deposition", "PUT file",
     "PUT metadata", "POST publish"}

\* C8: when the service answers one of the requests of create_new_deposition,
\* create_new_version, the upload PUT, the metadata PUT or the publish POST
\* with a status that is not 2xx, the run ends with that error: the request
\* is the last one sent.
C8_NonSuccessAborts ==
    \A k \in 1..Len(calls) :
        (calls[k].req \in HardRequests /\ ~Is2xx(calls[k].status))
        => /\ k = Len(calls)
           /\ pc = "error"
           /\ error # ""

\* C8, for the statuses raise_for_status raises on: a request of HardRequests
\* answered with a 4xx or 5xx status is the last request of the run.
C8_ErrorStatusAborts ==
    \A k \in 1..Len(calls) :
        (calls[k].req \in HardRequests /\ RaisesForStatus(calls[k].status))
        => /\ k = Len(calls)
           /\ pc = "error"
           /\ error = "HTTPError"

\* C9: in a run that completes, every deposition a file was uploaded into
\* gets its metadata attached after the upload, and publish_file is only
\* called on a deposition whose metadata was attached before.
C9_MetadataBeforePublish ==
    pc = "done"
    => /\ \A u \in InvokedOf("upload_to_zenodo") :
              \E m \in InvokedOf("add_meta_data") :
                  m > u /\ invoked[m].id = invoked[u].id
       /\ \A q \in InvokedOf("publish_file") :
              \E m \in InvokedOf("add_meta_data") :
                  m < q /\ invoked[m].id = invoked[q].id

\* C10: in the branch of an existing deposition every create_new_version is
\* called with, and posts its new-version action against, the id that
\* search_for_deposition returned, and each file is uploaded into the bucket
\* of the draft its own create_new_version returned.
C10_NewVersionOfFound ==
    /\ \A k \in InvokedOf("create_new_version") : invoked[k].id = found
    /\ \A k \in CallsOf("POST newversion") : calls[k].id = found
    /\ found # None
       => \A j \in CallsOf("PUT file") :
              \E g \in CallsOf("GET deposition") :
                  /\ g < j
                  /\ calls[g].id = calls[j].id
                  /\ calls[g - 1].req = "POST newversion"
                  /\ \A n \in CallsOf("POST newversion") : n < g \/ n > j
====
